---------------------------- MODULE Spec2Model ----------------------------
(***************************************************************************)
(* A model of the career-bot tool-calling agent: the bounded tool loop of  *)
(* Me.chat (agent/me.py), the LLMClient gateway (agent/llm_client.py), the *)
(* tool registry and handlers (tools/) and the notification push           *)
(* (tools/notifications.py).                                               *)
(*                                                                         *)
(* Python values are tagged records: None, str, dict (an insertion-ordered *)
(* sequence of key/value pairs) and list.  A JSON text is the sequence of  *)
(* its lexemes (whitespace between lexemes is not significant to           *)
(* json.loads, and json.dumps emits the default ", " and ": " separators). *)
(***************************************************************************)
EXTENDS Integers, Sequences, FiniteSets, TLC

(***************************************************************************)
(* Python values                                                           *)
(***************************************************************************)
None == [type |-> "NoneType"]

Str(s) == [type |-> "str", v |-> s]

Dict(items) == [type |-> "dict", v |-> items]

List(elems) == [type |-> "list", v |-> elems]

Item(k, val) == [k |-> k, val |-> val]

\* bool(x) for the values the program tests: None, "" and empty containers are falsy.
Truthy(x) ==
    CASE x.type = "NoneType" -> FALSE
      [] x.type = "str" -> x.v # ""
      [] OTHER -> Len(x.v) > 0

\* Whether character c occurs in the Python str s.
HasChar(s, c) == \E i \in 1..Len(s) : SubSeq(s, i, i) = c

\* The quote repr puts around a str: ' unless the str holds a ' and no ".
QuoteOf(s) == IF HasChar(s, "'") /\ ~HasChar(s, "\"") THEN "\"" ELSE "'"

\* A character as repr writes it between the quotes: the quote in use and
\* the backslash are escaped with a backslash, tab, newline and carriage
\* return are written \t, \n and \r, a form feed as the hex escape \x0c.
\* (The strings here are of printable ASCII and these four characters.)
Escaped(c, quote) ==
    IF c = quote \/ c = "\\" THEN "\\" \o c
    ELSE IF c = "\n" THEN "\\n"
    ELSE IF c = "\t" THEN "\\t"
    ELSE IF c = "\r" THEN "\\r"
    ELSE IF c = "\f" THEN "\\x0c"
    ELSE c

RECURSIVE EscapedFrom(_, _, _)
EscapedFrom(s, i, quote) ==
    IF i > Len(s) THEN ""
    ELSE Escaped(SubSeq(s, i, i), quote) \o EscapedFrom(s, i + 1, quote)

\* repr of a str.
ReprStr(s) == QuoteOf(s) \o EscapedFrom(s, 1, QuoteOf(s)) \o QuoteOf(s)

\* repr(x): of a container, the reprs of what it holds, joined with ", ".
RECURSIVE Repr(_), ReprElems(_, _), ReprItems(_, _)
Repr(x) ==
    CASE x.type = "NoneType" -> "None"
      [] x.type = "str" -> ReprStr(x.v)
      [] x.type = "list" -> "[" \o ReprElems(x.v, 1) \o "]"
      [] x.type = "dict" -> "{" \o ReprItems(x.v, 1) \o "}"

ReprElems(elems, i) ==
    IF i > Len(elems) THEN ""
    ELSE (IF i > 1 THEN ", " ELSE "") \o Repr(elems[i]) \o ReprElems(elems, i + 1)

ReprItems(items, i) ==
    IF i > Len(items) THEN ""
    ELSE (IF i > 1 THEN ", " ELSE "")
         \o ReprStr(items[i].k) \o ": " \o Repr(items[i].val)
         \o ReprItems(items, i + 1)

\* str(x) as an f-string formats it: a str is itself, anything else its repr.
Format(x) == IF x.type = "str" THEN x.v ELSE Repr(x)

\* The keys of a dict, and the value stored under a key it has.
Keys(d) == {d.v[i].k : i \in 1..Len(d.v)}

Get(d, key) == d.v[CHOOSE i \in 1..Len(d.v) : d.v[i].k = key].val

\* d[key] = val on an insertion-ordered dict: a key that is present keeps its
\* place and takes the new value, a new key goes to the end.
SetItem(items, key, val) ==
    IF \E i \in 1..Len(items) : items[i].k = key
    THEN [i \in 1..Len(items) |->
            IF items[i].k = key THEN Item(key, val) ELSE items[i]]
    ELSE Append(items, Item(key, val))

(***************************************************************************)
(* JSON texts as lexeme sequences                                          *)
(***************************************************************************)
P(c) == [lex |-> "punct", v |-> c]

S(s) == [lex |-> "string", v |-> s]

Null == [lex |-> "null", v |-> "null"]

NoError == "none"

Ok(val) == [raised |-> NoError, value |-> val]

Raise(e) == [raised |-> e, value |-> None]

\* A JSON scalar lexeme decoded to its Python value.
Scalar(tok) == IF tok.lex = "null" THEN None ELSE Str(tok.v)

IsScalar(tok) == tok.lex \in {"string", "null"}

\* What the decoder has read up to a position: the value and the position of
\* the next lexeme, or the error.
At(val, next) == [raised |-> NoError, value |-> val, next |-> next]

NotJSON == [raised |-> "JSONDecodeError", value |-> None, next |-> 0]

\* The value that starts at lexeme i: a scalar, an array or an object, whose
\* elements and member values are values in turn.
RECURSIVE ParseValue(_, _), ParseElements(_, _, _), ParseMembers(_, _, _)
ParseValue(toks, i) ==
    IF i > Len(toks) THEN NotJSON
    ELSE IF IsScalar(toks[i]) THEN At(Scalar(toks[i]), i + 1)
    ELSE IF toks[i] = P("[")
    THEN IF i + 1 <= Len(toks) /\ toks[i + 1] = P("]")
         THEN At(List(<<>>), i + 2)
         ELSE ParseElements(toks, i + 1, <<>>)
    ELSE IF toks[i] = P("{")
    THEN IF i + 1 <= Len(toks) /\ toks[i + 1] = P("}")
         THEN At(Dict(<<>>), i + 2)
         ELSE ParseMembers(toks, i + 1, <<>>)
    ELSE NotJSON

\* The elements of an array from lexeme i on: value, then , or ].
ParseElements(toks, i, elems) ==
    LET e == ParseValue(toks, i)
    IN  IF e.raised # NoError \/ e.next > Len(toks) THEN NotJSON
        ELSE IF toks[e.next] = P("]")
        THEN At(List(Append(elems, e.value)), e.next + 1)
        ELSE IF toks[e.next] = P(",")
        THEN ParseElements(toks, e.next + 1, Append(elems, e.value))
        ELSE NotJSON

\* The members of an object from lexeme i on: "key" : value, then , or }.
\* A key that comes again takes the later value.
ParseMembers(toks, i, items) ==
    IF i + 1 > Len(toks) THEN NotJSON
    ELSE IF toks[i].lex # "string" \/ toks[i + 1] # P(":") THEN NotJSON
    ELSE LET m == ParseValue(toks, i + 2)
         IN  IF m.raised # NoError \/ m.next > Len(toks) THEN NotJSON
             ELSE LET got == SetItem(items, toks[i].v, m.value)
                  IN  IF toks[m.next] = P("}") THEN At(Dict(got), m.next + 1)
                      ELSE IF toks[m.next] = P(",")
                      THEN ParseMembers(toks, m.next + 1, got)
                      ELSE NotJSON

\* A Python str holding a JSON text, given by its lexemes.
Text(toks) == [type |-> "text", v |-> toks]

\* The decoder on the lexemes of a text: one value and nothing after it.
LoadsLexemes(toks) ==
    LET r == ParseValue(toks, 1)
    IN  IF r.raised = NoError /\ r.next = Len(toks) + 1 THEN Ok(r.value)
        ELSE Raise("JSONDecodeError")

\* The encoder: the lexemes of a value.
RECURSIVE DumpsLexemes(_), DumpElements(_, _), DumpMembers(_, _)
DumpsLexemes(x) ==
    CASE x.type = "NoneType" -> <<Null>>
      [] x.type = "str" -> <<S(x.v)>>
      [] x.type = "list" -> <<P("[")>> \o DumpElements(x.v, 1) \o <<P("]")>>
      [] x.type = "dict" -> <<P("{")>> \o DumpMembers(x.v, 1) \o <<P("}")>>

DumpElements(elems, i) ==
    IF i > Len(elems) THEN <<>>
    ELSE (IF i > 1 THEN <<P(",")>> ELSE <<>>)
         \o DumpsLexemes(elems[i])
         \o DumpElements(elems, i + 1)

DumpMembers(items, i) ==
    IF i > Len(items) THEN <<>>
    ELSE (IF i > 1 THEN <<P(",")>> ELSE <<>>)
         \o <<S(items[i].k), P(":")>> \o DumpsLexemes(items[i].val)
         \o DumpMembers(items, i + 1)

\* json.loads(s) and json.dumps(x) as me.py calls them.
json_loads(s) == LoadsLexemes(s.v)

\* str(x) in place of json.dumps(x): Python's repr quotes with '.
str_of(x) ==
    Text([i \in 1..Len(DumpsLexemes(x)) |->
            IF DumpsLexemes(x)[i].lex = "string"
            THEN [lex |-> "repr", v |-> DumpsLexemes(x)[i].v]
            ELSE DumpsLexemes(x)[i]])

json_dumps(x) == Text(DumpsLexemes(x))

(***************************************************************************)
(* tools/notifications.py, tools/handlers.py, tools/__init__.py            *)
(***************************************************************************)
\* What requests.post can do: answer (whatever the status), or raise one of
\* the transport errors, which are all subclasses of requests.RequestException.
PostOutcomes == {"ok", "Timeout", "ConnectionError"}

RequestException == {"Timeout", "ConnectionError"}

PUSHOVER_URL == "https://api.pushover.net/1/messages.json"

\* An except clause for timeouts only, and no except clause at all.
SwallowedTimeoutOnly(outcome) == outcome = "Timeout"

NeverSwallowed(outcome) == FALSE

\* The except clause of push: which raised outcomes it swallows.
Swallowed(outcome) == outcome \in RequestException

\* push(message) under the configured token and user, when requests.post
\* behaves as `outcome`: what push raised, the POSTs it attempted and what
\* became of the POST ("not_called" when none was attempted).
push(token, user, message, outcome) ==
    IF ~Truthy(token) \/ ~Truthy(user)
    THEN [raised |-> NoError, outcome |-> "not_called", sent |-> <<>>]
    ELSE [raised |-> IF outcome = "ok" \/ Swallowed(outcome) THEN NoError ELSE outcome,
          outcome |-> outcome,
          sent |-> <<[url |-> PUSHOVER_URL,
                      timeout |-> 5,
                      data |-> Dict(<<Item("token", token), Item("user", user),
                                      Item("message", message)>>)]>>]

\* Binding tool(**args) to a signature: args must be a mapping whose keys are
\* parameters and include every parameter without a default.
BindError(args, params, required) ==
    IF args.type # "dict" THEN "TypeError"
    ELSE IF ~(Keys(args) \subseteq params) THEN "TypeError"
    ELSE IF ~(required \subseteq Keys(args)) THEN "TypeError"
    ELSE NoError

Arg(args, key, default) == IF key \in Keys(args) THEN Get(args, key) ELSE default

\* An f-string result, given by its literal and formatted parts in order.
FString(parts) == [type |-> "fstring", v |-> parts]

UserDetailsMessage(args) ==
    FString(<<"User: ", Format(Arg(args, "name", Str("Name not provided"))),
          " | Email: ", Format(Get(args, "email")),
          " | Notes: ", Format(Arg(args, "notes", Str("not provided")))>>)

UnknownQuestionMessage(args) ==
    FString(<<"Recording ", Format(Get(args, "question"))>>)

Recorded == Dict(<<Item("recorded", Str("ok"))>>)

\* A handler's outcome: what it raised, what it returned, and its push.
ToolOutcome(p) ==
    [raised |-> p.raised,
     value |-> IF p.raised = NoError THEN Recorded ELSE None,
     pushed |-> <<p>>]

record_user_details(args, token, user, outcome) ==
    IF BindError(args, {"email", "name", "notes"}, {"email"}) # NoError
    THEN [raised |-> "TypeError", value |-> None, pushed |-> <<>>]
    ELSE ToolOutcome(push(token, user, UserDetailsMessage(args), outcome))

record_unknown_question(args, token, user, outcome) ==
    IF BindError(args, {"question"}, {"question"}) # NoError
    THEN [raised |-> "TypeError", value |-> None, pushed |-> <<>>]
    ELSE ToolOutcome(push(token, user, UnknownQuestionMessage(args), outcome))

\* The registry maps a tool's name to its handler.
TOOL_REGISTRY ==
    [record_user_details |-> "record_user_details",
     record_unknown_question |-> "record_unknown_question"]

\* A lookup that falls back to a handler for names it does not know.
RegistryGetOrDefault(name) ==
    IF name \in DOMAIN TOOL_REGISTRY THEN Str(TOOL_REGISTRY[name])
    ELSE Str("record_unknown_question")

\* TOOL_REGISTRY.get(name): the handler, or None.
RegistryGet(name) ==
    IF name \in DOMAIN TOOL_REGISTRY THEN Str(TOOL_REGISTRY[name]) ELSE None

\* tool(**args) for a handler of the registry.
Invoke(tool, args, token, user, outcome) ==
    IF tool.v = "record_user_details"
    THEN record_user_details(args, token, user, outcome)
    ELSE record_unknown_question(args, token, user, outcome)

(***************************************************************************)
(* agent/me.py: _handle_tool_calls                                         *)
(***************************************************************************)
\* The provider numbers the calls of a response: ids are unique within it.
CallId(i) == "call_" \o ToString(i)

\* A results list keyed by the first request of a response.
ToolResultFirstId(call, output) ==
    [role |-> "tool", tool_call_id |-> CallId(1), content |-> json_dumps(output)]

\* A tool-result message whose content is str(output).
ToolResultStr(call, output) ==
    [role |-> "tool", tool_call_id |-> call.id, content |-> str_of(output)]

ToolResult(call, output) ==
    [role |-> "tool", tool_call_id |-> call.id, content |-> json_dumps(output)]

\* The for loop of _handle_tool_calls from call i on.  acc carries the results
\* list and what the loop has done so far: the registry lookups, the tools
\* invoked (with the decoded arguments) and their pushes.  outs[i] is what
\* requests.post does if call i reaches it.
RECURSIVE HandleFrom(_, _, _, _, _, _)
HandleFrom(calls, i, acc, token, user, outs) ==
    IF i > Len(calls) THEN acc
    ELSE LET call == calls[i]
             tool == RegistryGet(call.function.name)
             looked == [acc EXCEPT !.lookups = Append(@, call.function.name)]
         IN  IF ~Truthy(tool)
             THEN HandleFrom(calls, i + 1, looked, token, user, outs)
             ELSE LET args == json_loads(call.function.arguments)
                  IN  IF args.raised # NoError
                      THEN [looked EXCEPT !.raised = args.raised]
                      ELSE LET out == Invoke(tool, args.value, token, user, outs[i])
                               ran == [looked EXCEPT
                                         !.invoked = Append(@, [id |-> call.id,
                                                                name |-> tool.v,
                                                                args |-> args.value]),
                                         !.pushed = @ \o out.pushed]
                           IN  IF out.raised # NoError
                               THEN [ran EXCEPT !.raised = out.raised]
                               ELSE HandleFrom(calls, i + 1,
                                        [ran EXCEPT !.results =
                                            Append(@, ToolResult(call, out.value))],
                                        token, user, outs)

NoneHandled ==
    [raised |-> NoError, results |-> <<>>, lookups |-> <<>>, invoked |-> <<>>,
     pushed |-> <<>>]

Reversed(seq) == [i \in 1..Len(seq) |-> seq[Len(seq) + 1 - i]]

\* A loop over the requests from the last to the first.
IteratedReversed(tool_calls) == Reversed(tool_calls.v)

\* A loop that goes over the requests a second time.
IteratedTwice(tool_calls) == tool_calls.v \o tool_calls.v

\* for call in tool_calls: the requests in the order the loop takes them.
Iterated(tool_calls) == tool_calls.v

\* _handle_tool_calls(tool_calls) run from its first statement to its last:
\* iterating None raises TypeError.
handle_tool_calls(tool_calls, token, user, outs) ==
    IF tool_calls.type # "list" THEN [NoneHandled EXCEPT !.raised = "TypeError"]
    ELSE HandleFrom(tool_calls.v, 1, NoneHandled, token, user, outs)

(***************************************************************************)
(* config/settings.py and agent/llm_client.py                              *)
(***************************************************************************)
\* The value of an environment variable that is set.
Env(name) == Str(name)

LLM_PROVIDER == "openai"

LLM_CONFIGS ==
    Dict(<<Item("openai", [api_key |-> Env("OPENAI_API_KEY"),
                           base_url |-> Str("https://api.openai.com/v1"),
                           model |-> Str("gpt-4o-mini")]),
           Item("gemini", [api_key |-> Env("GEMINI_API_KEY"),
                           base_url |-> Str("https://generativelanguage.googleapis.com/v1beta/openai/"),
                           model |-> Str("gemini-2.5-flash")])>>)

\* sep.join(names), as the parts of the text in order.
RECURSIVE Join(_, _, _)
Join(names, sep, i) ==
    IF i > Len(names) THEN <<>>
    ELSE (IF i > 1 THEN <<sep>> ELSE <<>>) \o <<names[i]>> \o Join(names, sep, i + 1)

\* LLM_CONFIGS.keys(), in insertion order.
ConfigKeys == [i \in 1..Len(LLM_CONFIGS.v) |-> LLM_CONFIGS.v[i].k]

NoClient == [provider |-> "none", model |-> None, client |-> None]

\* The attributes __init__ sets for a configured provider; the SDK client is
\* built from the credential and endpoint and is not used until a call.
Attributes(provider) ==
    LET config == Get(LLM_CONFIGS, provider)
    IN  [provider |-> provider,
         model |-> config.model,
         client |-> Dict(<<Item("api_key", config.api_key),
                           Item("base_url", config.base_url)>>)]

\* A constructor that falls back to the default provider.
LLMClientOrDefault(provider) ==
    [raised |-> NoError,
     detail |-> <<>>,
     self |-> Attributes(IF provider \in Keys(LLM_CONFIGS) THEN provider
                         ELSE LLM_PROVIDER)]

\* LLMClient(provider): the client built, or the ValueError raised.
LLMClient(provider) ==
    IF provider \notin Keys(LLM_CONFIGS)
    THEN [raised |-> "ValueError",
          detail |-> <<"Unsupported provider: ", provider, ". ",
                       "Available providers: ">> \o Join(ConfigKeys, ", ", 1),
          self |-> NoClient]
    ELSE [raised |-> NoError, detail |-> <<>>, self |-> Attributes(provider)]

create_llm_client(provider) == LLMClient(provider)

\* The keyword arguments chat_completion passes to completions.create.
CompletionKwargs(self, messages, tools) ==
    IF Truthy(tools)
    THEN [model |-> self.model, messages |-> messages, tools |-> tools]
    ELSE [model |-> self.model, messages |-> messages]

\* hasattr(message, "tool_calls")
HasToolCalls(message) == "tool_calls" \in DOMAIN message

\* A parse that returns from inside its loop, after the first call.
parse_first_tool_call(response) ==
    LET message == response.choices[1].message
    IN  IF HasToolCalls(message) /\ Truthy(message.tool_calls)
        THEN <<[id |-> message.tool_calls.v[1].id,
                name |-> message.tool_calls.v[1].function.name,
                arguments |-> message.tool_calls.v[1].function.arguments]>>
        ELSE <<>>

\* parse_tool_calls(response)
parse_tool_calls(response) ==
    LET message == response.choices[1].message
    IN  IF HasToolCalls(message) /\ Truthy(message.tool_calls)
        THEN [i \in 1..Len(message.tool_calls.v) |->
                LET call == message.tool_calls.v[i]
                IN  [id |-> call.id,
                     name |-> call.function.name,
                     arguments |-> call.function.arguments]]
        ELSE <<>>

(***************************************************************************)
(* The provider's answers and the callers' inputs                          *)
(***************************************************************************)
\* Tool-call requests a model emits in one turn, and in one response.
MaxToolCallsPerTurn == 2

MaxToolCallsPerResponse == 2

\* Tool-call requests a model emits in one turn while two turns run.
MaxToolCallsConcurrent == 1

\* Messages of prior history the front-end passes in.
MaxHistory == 2

\* Iterations of the tool loop: range(5).
MaxIterations == 5

ArgQuestion ==
    Text(<<P("{"), S("question"), P(":"), S("What is his email policy?"), P("}")>>)

ArgDetails ==
    Text(<<P("{"), S("email"), P(":"), S("ann@example.com"), P(","),
           S("name"), P(":"), S("Ann"), P("}")>>)

ArgTruncated == Text(<<P("{"), S("question"), P(":")>>)

\* {"question": ["it's", "a\\b", []]}: an array of the strings it's and
\* a\b (one backslash) and of an empty array.
ArgNested ==
    Text(<<P("{"), S("question"), P(":"),
           P("["), S("it's"), P(","), S("a\\b"), P(","), P("["), P("]"),
           P("]"), P("}")>>)

\* What a model asks for in one tool call: the two registered tools with
\* arguments that fit, a tool that is not registered, and registered tools
\* with a text that is not JSON or with arguments that do not fit.
CallMenu ==
    {[name |-> "record_user_details", arguments |-> ArgDetails],
     [name |-> "record_unknown_question", arguments |-> ArgQuestion],
     [name |-> "get_weather", arguments |-> ArgTruncated],
     [name |-> "record_unknown_question", arguments |-> ArgTruncated],
     [name |-> "record_user_details", arguments |-> ArgQuestion]}

MakeCalls(asked) ==
    [i \in 1..Len(asked) |->
        [id |-> CallId(i), type |-> "function", function |-> asked[i]]]

\* A request whose question is an array, of strings that repr quotes and
\* escapes and of an array: it fits the tool, whose handler does not look at
\* the types of its arguments.
NestedCall == [name |-> "record_unknown_question", arguments |-> ArgNested]

\* The tool_calls lists of at most n requests: the requests of the menu in
\* any combination, and the request with an array on its own.
ToolCallLists(n) ==
    {List(MakeCalls(asked)) :
        asked \in UNION {[1..k -> CallMenu] : k \in 0..n}
                  \cup (IF n >= 1 THEN {<<NestedCall>>} ELSE {})}

Response(finish, message) ==
    [choices |-> <<[finish_reason |-> finish, message |-> message]>>]

\* Responses that ask for tools, with at most n requests; the tool_calls
\* attribute may be None.
ToolRoundResponses(n) ==
    {Response("tool_calls", [content |-> None, tool_calls |-> tc]) :
        tc \in {None} \cup ToolCallLists(n)}

\* Response objects whose message has no tool_calls attribute.
BareResponses ==
    {Response(f, [content |-> Str("He is a front-end engineer.")]) :
        f \in {"stop", "tool_calls"}}

\* Responses that end otherwise; they too may carry tool-call entries.
FinalResponses ==
    {Response(f, [content |-> c, tool_calls |-> tc]) :
        f \in {"stop", "length"},
        c \in {None, Str(""), Str("He is a front-end engineer.")},
        tc \in {None, List(MakeCalls(<<[name |-> "record_unknown_question",
                                         arguments |-> ArgQuestion]>>))}}

\* The front-end's history: empty on the first turn, later the greeting and
\* the exchanges so far.
Conversation ==
    <<[role |-> "assistant", content |-> Str("Hi! I'm the assistant.")],
      [role |-> "user", content |-> Str("Who is he?")],
      [role |-> "assistant", content |-> Str("A front-end engineer.")]>>

Histories == {SubSeq(Conversation, 1, n) : n \in {0, MaxHistory}}

UserMessages == {Str("Can I reach him directly?")}

\* agent/prompt.py and tools/schemas.py
SystemPrompt == Str("system prompt")

tools ==
    List(<<[type |-> "function", function |-> [name |-> "record_user_details"]],
           [type |-> "function", function |-> [name |-> "record_unknown_question"]]>>)

TurnIds == {1, 2}

(***************************************************************************)
(* State                                                                   *)
(***************************************************************************)
VARIABLES
    PUSHOVER_TOKEN,  \* config.settings.PUSHOVER_TOKEN
    PUSHOVER_USER,   \* config.settings.PUSHOVER_USER
    llm_client,      \* the LLMClient built last (Me.llm_client)
    ctor,            \* the last LLMClient(provider) call: what it raised, the detail
    requests,        \* the completion requests sent to the provider so far, by turn
    posts,           \* the push calls made outside a turn: POST, outcome, raised
    parsed,          \* the last parse_tool_calls call: its response and result
    serving,         \* the turns the front-end runs
    pc,              \* per turn: where Me.chat is
    history,         \* per turn: the caller's history list
    messages,        \* per turn: the buffer
    round,           \* per turn: iterations of the loop completed
    response,        \* per turn: the last response received
    result,          \* per turn: the text returned
    error,           \* per turn: the exception that ended the turn
    lookups,         \* per turn: registry lookups, with their round
    invoked,         \* per turn: tools invoked, with their round
    pushed,          \* per turn: the pushes of the tools in the last tool round
    cursor,          \* per turn: the request the for loop of _handle_tool_calls is at
    results          \* per turn: the results list of _handle_tool_calls

env == <<PUSHOVER_TOKEN, PUSHOVER_USER>>

gateway == <<llm_client, ctor, parsed>>

turn == <<pc, history, messages, round, response, result, error, lookups, invoked,
          pushed, cursor, results>>

vars == <<env, gateway, requests, posts, serving, turn>>

NoResponse == Response("none", [content |-> None, tool_calls |-> None])

NoResult == [type |-> "unset"]

NoCtorError == [provider |-> "none", raised |-> NoError, detail |-> <<>>]

NoParsed == [response |-> NoResponse, tool_calls |-> <<>>]

Idle(f) == [t \in TurnIds |-> f]

TurnInit ==
    /\ pc = Idle("idle")
    /\ history = Idle(<<>>)
    /\ messages = Idle(<<>>)
    /\ round = Idle(0)
    /\ response = Idle(NoResponse)
    /\ result = Idle(NoResult)
    /\ error = Idle(NoError)
    /\ lookups = Idle(<<>>)
    /\ invoked = Idle(<<>>)
    /\ pushed = Idle(<<>>)
    /\ cursor = Idle(0)
    /\ results = Idle(<<>>)

\* The process after app.py has built Me(): the client of LLM_PROVIDER exists,
\* nothing has been sent, and the notification destination is either configured
\* or not.
Init ==
    /\ \E configured \in BOOLEAN :
          /\ PUSHOVER_TOKEN = IF configured THEN Env("PUSHOVER_TOKEN") ELSE None
          /\ PUSHOVER_USER = IF configured THEN Env("PUSHOVER_USER") ELSE None
    /\ llm_client = create_llm_client(LLM_PROVIDER).self
    /\ ctor = NoCtorError
    /\ requests = <<>>
    /\ posts = <<>>
    /\ parsed = NoParsed
    /\ serving = {1}
    /\ TurnInit

(***************************************************************************)
(* agent/me.py: Me.chat, one turn t                                        *)
(***************************************************************************)
\* The tool-call requests the buffer holds.
RECURSIVE Requested(_, _)
Requested(msgs, i) ==
    IF i > Len(msgs) THEN 0
    ELSE (IF msgs[i].role = "assistant" /\ "tool_calls" \in DOMAIN msgs[i]
             /\ msgs[i].tool_calls.type = "list"
          THEN Len(msgs[i].tool_calls.v) ELSE 0)
         + Requested(msgs, i + 1)

Min(a, b) == IF a < b THEN a ELSE b

\* What the provider answers while two turns run: a tool round with no
\* request, or with one request, that fits its tool or does not, while the
\* turn has asked for fewer than MaxToolCallsConcurrent; or a text.
ConcurrentAnswers(t) ==
    {Response("tool_calls", [content |-> None, tool_calls |-> List(MakeCalls(asked))]) :
        asked \in {<<>>} \cup
                  (IF Requested(messages[t], 1) < MaxToolCallsConcurrent
                   THEN {<<[name |-> "record_unknown_question",
                            arguments |-> ArgQuestion]>>,
                         <<[name |-> "record_user_details",
                            arguments |-> ArgQuestion]>>}
                   ELSE {})}
    \cup {Response("stop", [content |-> Str("He is a front-end engineer."),
                            tool_calls |-> None])}

\* What the provider may answer in turn t.
Answers(t) ==
    IF Cardinality(serving) > 1 THEN ConcurrentAnswers(t)
    ELSE ToolRoundResponses(Min(MaxToolCallsPerResponse,
                                MaxToolCallsPerTurn - Requested(messages[t], 1)))
         \cup FinalResponses

\* The histories the front-end may pass to turn t.  While two turns run, the
\* first is called with no history and the second with the conversation so
\* far.
HistoriesOf(t) ==
    IF Cardinality(serving) > 1
    THEN {SubSeq(Conversation, 1, IF t = 1 THEN 0 ELSE MaxHistory)}
    ELSE Histories

\* A seed with the new user message ahead of the history.
SeedUserFirst(message, hist) ==
    <<[role |-> "system", content |-> SystemPrompt]>>
    \o <<[role |-> "user", content |-> message]>>
    \o hist

\* The buffer chat seeds.
Seed(message, hist) ==
    <<[role |-> "system", content |-> SystemPrompt]>>
    \o hist
    \o <<[role |-> "user", content |-> message]>>

\* A chat that seeds the buffer in the caller's list: history.insert(0, ...)
\* and history.append(...), with messages another name for that list.
StartInPlace(t) ==
    /\ t \in serving
    /\ pc[t] = "idle"
    /\ llm_client # NoClient
    /\ \E message \in UserMessages, hist \in HistoriesOf(t) :
          /\ history' = [history EXCEPT ![t] = Seed(message, hist)]
          /\ messages' = [messages EXCEPT ![t] = Seed(message, hist)]
    /\ pc' = [pc EXCEPT ![t] = "CALLING_MODEL"]
    /\ UNCHANGED <<env, gateway, requests, posts, serving, round, response, result,
                   error, lookups, invoked, pushed, cursor, results>>

\* chat(message, history) is called: the buffer is seeded and the loop entered.
Start(t) ==
    /\ t \in serving
    /\ pc[t] = "idle"
    /\ llm_client # NoClient
    /\ \E message \in UserMessages, hist \in HistoriesOf(t) :
          /\ history' = [history EXCEPT ![t] = hist]
          /\ messages' = [messages EXCEPT ![t] = Seed(message, hist)]
    /\ pc' = [pc EXCEPT ![t] = "CALLING_MODEL"]
    /\ UNCHANGED <<env, gateway, requests, posts, serving, round, response, result,
                   error, lookups, invoked, pushed, cursor, results>>

\* The request chat_completion sends for turn t, entered in the log after
\* the requests of the turns up to t: the log keeps each turn's requests
\* together, in the order the turn sent them.
Sent(t) ==
    LET k == Cardinality({i \in 1..Len(requests) : requests[i].turn <= t})
    IN  SubSeq(requests, 1, k)
        \o <<[turn |-> t,
              kwargs |-> CompletionKwargs(llm_client, messages[t], tools)]>>
        \o SubSeq(requests, k + 1, Len(requests))

\* The top of an iteration: chat_completion sends the buffer to the provider,
\* and the turn waits in chat.completions.create for the answer.
Send(t) ==
    /\ pc[t] = "CALLING_MODEL"
    /\ requests' = Sent(t)
    /\ pc' = [pc EXCEPT ![t] = "AWAITING_MODEL"]
    /\ UNCHANGED <<env, gateway, posts, serving, history, messages, round, response,
                   result, error, lookups, invoked, pushed, cursor, results>>

\* The assistant message chat appends in a tool round.
AssistantMessage(message) ==
    [role |-> "assistant", content |-> message.content,
     tool_calls |-> message.tool_calls]

\* return choice.message.content or ""
FinalTextOrEmpty(message) ==
    IF Truthy(message.content) THEN message.content ELSE Str("")

\* return choice.message.content
FinalText(message) == message.content

\* A chat that keeps the buffer in an attribute of the Me instance: what one
\* turn appends, every turn's buffer holds.
CompleteSharedBuffer(t) ==
    /\ pc[t] = "AWAITING_MODEL"
    /\ \E resp \in Answers(t) :
          LET choice == resp.choices[1]
          IN  /\ response' = [response EXCEPT ![t] = resp]
              /\ IF choice.finish_reason = "tool_calls"
                 THEN /\ messages' = [u \in TurnIds |->
                                        Append(messages[t],
                                               AssistantMessage(choice.message))]
                      /\ pc' = [pc EXCEPT ![t] = "HAS_TOOL_CALLS"]
                      /\ cursor' = [cursor EXCEPT ![t] = 1]
                      /\ results' = [results EXCEPT ![t] = <<>>]
                      /\ pushed' = [pushed EXCEPT ![t] = <<>>]
                      /\ UNCHANGED result
                 ELSE /\ result' = [result EXCEPT ![t] = FinalText(choice.message)]
                      /\ pc' = [pc EXCEPT ![t] = "DONE"]
                      /\ UNCHANGED <<messages, cursor, results, pushed>>
    /\ UNCHANGED <<env, gateway, requests, posts, serving, history, round, error,
                   lookups, invoked>>

\* The completion call returns resp, and the iteration goes on to its branch:
\* either the text is returned, or the assistant message is appended and
\* _handle_tool_calls entered with an empty results list.
Complete(t) ==
    /\ pc[t] = "AWAITING_MODEL"
    /\ \E resp \in Answers(t) :
          LET choice == resp.choices[1]
          IN  /\ response' = [response EXCEPT ![t] = resp]
              /\ IF choice.finish_reason = "tool_calls"
                 THEN /\ messages' = [messages EXCEPT ![t] =
                                        Append(@, AssistantMessage(choice.message))]
                      /\ pc' = [pc EXCEPT ![t] = "HAS_TOOL_CALLS"]
                      /\ cursor' = [cursor EXCEPT ![t] = 1]
                      /\ results' = [results EXCEPT ![t] = <<>>]
                      /\ pushed' = [pushed EXCEPT ![t] = <<>>]
                      /\ UNCHANGED result
                 ELSE /\ result' = [result EXCEPT ![t] = FinalText(choice.message)]
                      /\ pc' = [pc EXCEPT ![t] = "DONE"]
                      /\ UNCHANGED <<messages, cursor, results, pushed>>
    /\ UNCHANGED <<env, gateway, requests, posts, serving, history, round, error,
                   lookups, invoked>>

\* A chat that catches the failure and goes back to call again.
ProviderFailsRetried(t) ==
    /\ pc[t] = "AWAITING_MODEL"
    /\ pc' = [pc EXCEPT ![t] = "CALLING_MODEL"]
    /\ UNCHANGED <<env, gateway, requests, posts, serving, history, messages, round,
                   response, result, error, lookups, invoked, pushed, cursor, results>>

\* The completion call raises (network, auth, malformed response): chat does
\* not catch it.
ProviderFails(t) ==
    /\ pc[t] = "AWAITING_MODEL"
    /\ pc' = [pc EXCEPT ![t] = "FAILED"]
    /\ error' = [error EXCEPT ![t] = "ProviderError"]
    /\ UNCHANGED <<env, gateway, requests, posts, serving, history, messages, round,
                   response, result, lookups, invoked, pushed, cursor, results>>

InRound(log, r) == [i \in 1..Len(log) |-> [round |-> r, what |-> log[i]]]

\* A loop of one iteration fewer: range(4).
LoopExitBeforeLast(done) == done = MaxIterations - 1

\* A loop that runs one iteration too many.
LoopExitLate(done) == done = MaxIterations + 1

\* After the last iteration the for loop is left and RuntimeError raised.
LoopExit(done) == done = MaxIterations

\* A handler that catches what a request raises, drops the results list and
\* lets the loop of chat go on to its next iteration.
RaiseCaught(t, e) ==
    /\ round' = [round EXCEPT ![t] = @ + 1]
    /\ cursor' = [cursor EXCEPT ![t] = 0]
    /\ results' = [results EXCEPT ![t] = <<>>]
    /\ IF LoopExit(round[t] + 1)
       THEN /\ pc' = [pc EXCEPT ![t] = "EXHAUSTED"]
            /\ error' = [error EXCEPT ![t] = "RuntimeError"]
       ELSE /\ pc' = [pc EXCEPT ![t] = "CALLING_MODEL"]
            /\ UNCHANGED error
    /\ UNCHANGED messages

\* A handler that extends the buffer with the results gathered before a
\* request raised, and then lets the exception go on.
RaisePartial(t, e) ==
    /\ pc' = [pc EXCEPT ![t] = "FAILED"]
    /\ error' = [error EXCEPT ![t] = e]
    /\ messages' = [messages EXCEPT ![t] = @ \o results[t]]
    /\ UNCHANGED <<round, cursor, results>>

\* An exception raised inside _handle_tool_calls: neither it nor chat has an
\* except clause, so the exception leaves chat; the results list is dropped
\* with the frame and the buffer is not extended.
RaiseInRound(t, e) ==
    /\ pc' = [pc EXCEPT ![t] = "FAILED"]
    /\ error' = [error EXCEPT ![t] = e]
    /\ UNCHANGED <<messages, round, cursor, results>>

\* The body of the for loop for call i, entered with the results gathered so
\* far, when requests.post behaves as `outcome` if the call reaches it.
HandleOne(calls, i, gathered, token, user, outcome) ==
    HandleFrom(SubSeq(calls, 1, i), i, [NoneHandled EXCEPT !.results = gathered],
               token, user, [j \in 1..i |-> outcome])

\* A push whose POST has been made and has not returned.
InFlight(p) == [p EXCEPT !.outcome = "pending"]

\* _handle_tool_calls runs on from where it is.  At a request: the registry
\* lookup, and for a registered tool json.loads and tool(**args), up to the
\* POST of its push, where the turn waits in requests.post; a request that
\* makes no POST is gone through, to its result or its skip.  Past the last
\* request: the results extend the buffer and the iteration ends, into the
\* next one or, after the last, into RuntimeError.
HandleToolCalls(t) ==
    /\ pc[t] = "HAS_TOOL_CALLS"
    /\ LET tool_calls == messages[t][Len(messages[t])].tool_calls
           r == round[t] + 1
       IN  IF tool_calls.type # "list"
           THEN /\ RaiseInRound(t, "TypeError")
                /\ UNCHANGED <<lookups, invoked, pushed>>
           ELSE IF cursor[t] > Len(Iterated(tool_calls))
           THEN /\ messages' = [messages EXCEPT ![t] = @ \o results[t]]
                /\ round' = [round EXCEPT ![t] = r]
                /\ cursor' = [cursor EXCEPT ![t] = 0]
                /\ results' = [results EXCEPT ![t] = <<>>]
                /\ IF LoopExit(r)
                   THEN /\ pc' = [pc EXCEPT ![t] = "EXHAUSTED"]
                        /\ error' = [error EXCEPT ![t] = "RuntimeError"]
                   ELSE /\ pc' = [pc EXCEPT ![t] = "CALLING_MODEL"]
                        /\ UNCHANGED error
                /\ UNCHANGED <<lookups, invoked, pushed>>
           ELSE LET one == HandleOne(Iterated(tool_calls), cursor[t], results[t],
                                     PUSHOVER_TOKEN, PUSHOVER_USER, "ok")
                    posting == one.pushed # <<>> /\ one.pushed[1].sent # <<>>
                IN  /\ lookups' = [lookups EXCEPT ![t] = @ \o InRound(one.lookups, r)]
                    /\ invoked' = [invoked EXCEPT ![t] = @ \o InRound(one.invoked, r)]
                    /\ IF one.raised # NoError
                       THEN /\ RaiseInRound(t, one.raised)
                            /\ UNCHANGED pushed
                       ELSE IF posting
                       THEN /\ pushed' = [pushed EXCEPT ![t] =
                                            @ \o InRound(<<InFlight(one.pushed[1])>>, r)]
                            /\ pc' = [pc EXCEPT ![t] = "POSTING"]
                            /\ UNCHANGED <<messages, round, error, cursor, results>>
                       ELSE /\ pushed' = [pushed EXCEPT ![t] = @ \o InRound(one.pushed, r)]
                            /\ results' = [results EXCEPT ![t] = one.results]
                            /\ cursor' = [cursor EXCEPT ![t] = @ + 1]
                            /\ UNCHANGED <<pc, messages, round, error>>
    /\ UNCHANGED <<env, gateway, requests, posts, serving, history, response, result>>

\* requests.post returns or raises: push swallows a RequestException, the
\* tool returns, its result joins the results list and the for loop goes on
\* to the next request.
PostReturns(t) ==
    /\ pc[t] = "POSTING"
    /\ \E outcome \in PostOutcomes :
          LET tool_calls == messages[t][Len(messages[t])].tool_calls
              one == HandleOne(Iterated(tool_calls), cursor[t], results[t],
                               PUSHOVER_TOKEN, PUSHOVER_USER, outcome)
          IN  /\ pushed' = [pushed EXCEPT ![t] =
                              SubSeq(@, 1, Len(@) - 1)
                              \o InRound(one.pushed, round[t] + 1)]
              /\ IF one.raised # NoError
                 THEN RaiseInRound(t, one.raised)
                 ELSE /\ results' = [results EXCEPT ![t] = one.results]
                      /\ cursor' = [cursor EXCEPT ![t] = @ + 1]
                      /\ pc' = [pc EXCEPT ![t] = "HAS_TOOL_CALLS"]
                      /\ UNCHANGED <<messages, round, error>>
    /\ UNCHANGED <<env, gateway, requests, posts, serving, history, response, result,
                   lookups, invoked>>

Next ==
    \E t \in TurnIds :
        \/ Start(t)
        \/ Send(t)
        \/ Complete(t)
        \/ ProviderFails(t)
        \/ HandleToolCalls(t)
        \/ PostReturns(t)

Spec == Init /\ [][Next]_vars

\* The front-end runs two turns on the one Me instance, in any interleaving
\* of their steps, with the notification destination configured.
InitConcurrent ==
    /\ PUSHOVER_TOKEN = Env("PUSHOVER_TOKEN")
    /\ PUSHOVER_USER = Env("PUSHOVER_USER")
    /\ llm_client = create_llm_client(LLM_PROVIDER).self
    /\ ctor = NoCtorError
    /\ requests = <<>>
    /\ posts = <<>>
    /\ parsed = NoParsed
    /\ serving = TurnIds
    /\ TurnInit

SpecConcurrent == InitConcurrent /\ [][Next]_vars

\* chat runs on the calling thread: its statements run, a completion call
\* that was made returns or raises, and so does a POST (after 5 seconds at
\* the latest).  The conjuncts for HandleToolCalls and PostReturns are weak
\* fairness with the action's enabling condition written out: each is enabled
\* exactly in the states of its pc value.
Fairness ==
    \A t \in TurnIds :
        /\ WF_vars(Send(t))
        /\ WF_vars(ProviderFails(t) \/ Complete(t))
        /\ \/ []<>(pc[t] # "HAS_TOOL_CALLS")
           \/ []<><<HandleToolCalls(t)>>_vars
        /\ \/ []<>(pc[t] # "POSTING")
           \/ []<><<PostReturns(t)>>_vars

SpecLive == Spec /\ Fairness

(***************************************************************************)
(* The gateway on its own: LLMClient is constructed, asked for completions *)
(* and asked to parse responses                                            *)
(***************************************************************************)
\* Completion calls made on a client outside any turn.
MaxRequests == 1

ProviderNames == {"openai", "gemini", "anthropic", "OpenAI", ""}

\* Responses handed to parse_tool_calls.
ParsedResponses ==
    ToolRoundResponses(MaxToolCallsPerResponse) \cup FinalResponses \cup BareResponses

InitGateway ==
    /\ PUSHOVER_TOKEN = None
    /\ PUSHOVER_USER = None
    /\ llm_client = NoClient
    /\ ctor = NoCtorError
    /\ requests = <<>>
    /\ posts = <<>>
    /\ parsed = NoParsed
    /\ serving = {}
    /\ TurnInit

\* client = LLMClient(provider): on ValueError nothing is bound.
Construct ==
    /\ \E provider \in ProviderNames :
          LET new == create_llm_client(provider)
          IN  /\ ctor' = [provider |-> provider, raised |-> new.raised,
                           detail |-> new.detail]
              /\ llm_client' = IF new.raised = NoError THEN new.self ELSE llm_client
    /\ UNCHANGED <<env, requests, posts, parsed, serving, turn>>

\* client.chat_completion(messages, tools) with the tool declarations, with an
\* empty list, or with none.
ChatCompletion ==
    /\ llm_client # NoClient
    /\ Len(requests) < MaxRequests
    /\ \E message \in UserMessages, decl \in {None, List(<<>>), tools} :
          requests' = Append(requests,
                             [turn |-> 0,
                              kwargs |-> CompletionKwargs(llm_client,
                                                          Seed(message, <<>>), decl)])
    /\ UNCHANGED <<env, gateway, posts, serving, turn>>

\* client.parse_tool_calls(response)
ParseToolCalls ==
    /\ llm_client # NoClient
    /\ \E resp \in ParsedResponses :
          parsed' = [response |-> resp, tool_calls |-> parse_tool_calls(resp)]
    /\ UNCHANGED <<env, llm_client, ctor, requests, posts, serving, turn>>

NextGateway == Construct \/ ChatCompletion \/ ParseToolCalls

SpecGateway == InitGateway /\ [][NextGateway]_vars

(***************************************************************************)
(* The notification on its own: push is called under every configuration   *)
(***************************************************************************)
\* Calls of push outside any turn.
MaxPushCalls == 3

Settings == {None, Str(""), Env("PUSHOVER")}

PushMessages == {UnknownQuestionMessage(json_loads(ArgQuestion).value),
                 UserDetailsMessage(json_loads(ArgDetails).value)}

InitPush ==
    /\ PUSHOVER_TOKEN \in Settings
    /\ PUSHOVER_USER \in Settings
    /\ llm_client = NoClient
    /\ ctor = NoCtorError
    /\ requests = <<>>
    /\ posts = <<>>
    /\ parsed = NoParsed
    /\ serving = {}
    /\ TurnInit

\* A caller calls push(message): with no destination push returns at once;
\* otherwise it makes the POST and waits in requests.post.
Push ==
    /\ Len(posts) < MaxPushCalls
    /\ \E message \in PushMessages :
          LET p == push(PUSHOVER_TOKEN, PUSHOVER_USER, message, "ok")
          IN  posts' = Append(posts, IF p.sent = <<>> THEN p ELSE InFlight(p))
    /\ UNCHANGED <<env, gateway, requests, serving, turn>>

\* The POST of a push that waits returns or raises, as outcome: the except
\* clause is passed and push returns.  Callers wait independently, so any
\* of the waiting pushes may be the next to return.
PushReturns ==
    /\ \E i \in 1..Len(posts), outcome \in PostOutcomes :
          /\ posts[i].outcome = "pending"
          /\ posts' = [posts EXCEPT ![i] =
                          push(PUSHOVER_TOKEN, PUSHOVER_USER,
                               Get(posts[i].sent[1].data, "message"), outcome)]
    /\ UNCHANGED <<env, gateway, requests, serving, turn>>

NextPush == Push \/ PushReturns

SpecPush == InitPush /\ [][NextPush]_vars

(***************************************************************************)
(* What the properties below read off a state                              *)
(***************************************************************************)
\* The completion calls turn t has made.
Calls(t) == Cardinality({i \in 1..Len(requests) : requests[i].turn = t})

\* The buffer turn t sent on its latest completion call.
LastSent(t) ==
    requests[CHOOSE i \in 1..Len(requests) :
                /\ requests[i].turn = t
                /\ \A j \in (i + 1)..Len(requests) : requests[j].turn # t].kwargs.messages

IsToolRound(m) == m.role = "assistant" /\ "tool_calls" \in DOMAIN m

\* The position of the latest assistant message of a tool round, or 0.
LastAssistant(msgs) ==
    IF \E i \in 1..Len(msgs) : IsToolRound(msgs[i])
    THEN CHOOSE i \in 1..Len(msgs) :
            /\ IsToolRound(msgs[i])
            /\ \A j \in (i + 1)..Len(msgs) : ~IsToolRound(msgs[j])
    ELSE 0

\* The requests of that message, and the messages that follow it.
Asked(t) ==
    LET la == LastAssistant(messages[t])
    IN  IF la = 0 THEN <<>>
        ELSE IF messages[t][la].tool_calls.type # "list" THEN <<>>
        ELSE messages[t][la].tool_calls.v

Answered(t) ==
    SubSeq(messages[t], LastAssistant(messages[t]) + 1, Len(messages[t]))

IsRegistered(call) ==
    call.function.name \in {"record_user_details", "record_unknown_question"}

\* A request the loop can process: its tool is not registered, or its
\* argument text decodes to arguments that fit the tool.
Processable(call) ==
    \/ ~IsRegistered(call)
    \/ /\ json_loads(call.function.arguments).raised = NoError
       /\ Invoke(Str(call.function.name), json_loads(call.function.arguments).value,
                 None, None, "ok").raised = NoError

\* Turn t has handled the tool round of its latest assistant message.
Settled(t) ==
    /\ LastAssistant(messages[t]) > 0
    /\ \/ pc[t] \in {"CALLING_MODEL", "AWAITING_MODEL", "DONE", "EXHAUSTED"}
       \/ pc[t] = "FAILED" /\ error[t] = "ProviderError"

\* The text of {"recorded": "ok"}.
RecordedText == Text(<<P("{"), S("recorded"), P(":"), S("ok"), P("}")>>)

(***************************************************************************)
(* Properties                                                              *)
(***************************************************************************)
\* C1 as stated: whenever every answer of a turn had the finish category
\* "tool calls requested", the turn makes at most 5 completion calls and ends
\* with the loop-exceeded error.  A turn that has ended otherwise than by a
\* returned text or a provider failure has received only such answers.
C1_AsStated ==
    \A t \in TurnIds :
        (pc[t] \in {"FAILED", "EXHAUSTED"} /\ error[t] # "ProviderError")
            => (pc[t] = "EXHAUSTED" /\ error[t] = "RuntimeError" /\ Calls(t) <= 5)

\* C1 (amended): no turn makes a 6th completion call, and every completion
\* call is followed at once by the end of the turn or by one tool round; a
\* turn is ended by the loop-exceeded error exactly when it has completed 5
\* tool rounds, after exactly 5 completion calls and with no text; and a
\* turn whose answers all ask for tools ends before that only if a response
\* carries no tool-call list or a request to a registered tool cannot be
\* processed.
C1_BoundedTermination ==
    \A t \in TurnIds :
        /\ Calls(t) <= 5
        /\ (pc[t] = "EXHAUSTED") <=> (round[t] = 5)
        /\ pc[t] = "EXHAUSTED"
              => (Calls(t) = 5 /\ error[t] = "RuntimeError" /\ result[t] = NoResult)
        /\ pc[t] = "CALLING_MODEL" => (Calls(t) < 5 /\ Calls(t) = round[t])
        /\ pc[t] \in {"AWAITING_MODEL", "HAS_TOOL_CALLS", "POSTING"}
              => (Calls(t) = round[t] + 1 /\ round[t] < 5)
        /\ (pc[t] = "FAILED" /\ error[t] # "ProviderError")
              => /\ error[t] \in {"TypeError", "JSONDecodeError"}
                 /\ LET message == response[t].choices[1].message
                    IN  \/ message.tool_calls.type # "list"
                        \/ \E i \in 1..Len(message.tool_calls.v) :
                              ~Processable(message.tool_calls.v[i])

\* A turn ended by the loop-exceeded error in which tools were invoked and an
\* unregistered tool was asked for.
C1_Witness ==
    \E t \in TurnIds :
        /\ pc[t] = "EXHAUSTED"
        /\ Len(invoked[t]) > 0
        /\ \E i \in 1..Len(lookups[t]) : lookups[t][i].what = "get_weather"

\* C2: when a response's finish category is not "tool calls requested", the
\* turn returns that response's text as it is (None and "" included), and in
\* that round it looks up no tool, invokes none, pushes nothing, appends
\* nothing to the buffer it sent, and makes no further completion call, even
\* when the response carries tool-call entries.
C2_SingleResolution ==
    \A t \in TurnIds :
        /\ response[t] # NoResponse
           /\ response[t].choices[1].finish_reason # "tool_calls"
              => pc[t] = "DONE"
        /\ pc[t] = "DONE"
              => /\ response[t].choices[1].finish_reason # "tool_calls"
                 /\ result[t] = response[t].choices[1].message.content
                 /\ messages[t] = LastSent(t)
                 /\ Calls(t) = round[t] + 1
                 /\ \A i \in 1..Len(lookups[t]) : lookups[t][i].round <= round[t]
                 /\ \A i \in 1..Len(invoked[t]) : invoked[t][i].round <= round[t]
                 /\ \A i \in 1..Len(pushed[t]) : pushed[t][i].round <= round[t]
                 /\ ~ENABLED (Start(t) \/ Send(t) \/ Complete(t) \/ ProviderFails(t)
                              \/ HandleToolCalls(t) \/ PostReturns(t))

\* A turn that returned None from a response that carried a tool call, after
\* an earlier tool round.
C2_Witness ==
    \E t \in TurnIds :
        /\ pc[t] = "DONE"
        /\ result[t] = None
        /\ round[t] >= 1
        /\ Truthy(response[t].choices[1].message.tool_calls)

\* A tool-result message for request call with the encoding of what the
\* tool returned, among the messages msgs.
HasResult(msgs, call) ==
    \E j \in 1..Len(msgs) :
        /\ msgs[j].role = "tool"
        /\ msgs[j].tool_call_id = call.id
        /\ msgs[j].content = RecordedText

\* _handle_tool_calls raised on the round of turn t's latest assistant
\* message.
Aborted(t) == pc[t] = "FAILED" /\ error[t] \in {"TypeError", "JSONDecodeError"}

\* C3 as stated: once _handle_tool_calls is over for a round, by returning or
\* by raising, every request of the round that names a registered tool and
\* carries valid arguments has a tool-result message with its id and the
\* encoding of what the tool returned, in the buffer or at least in the
\* results list the call had built.
C3_AsStated ==
    \A t \in TurnIds :
        (Settled(t) \/ Aborted(t)) =>
            \A i \in 1..Len(Asked(t)) :
                LET call == Asked(t)[i]
                IN  (IsRegistered(call) /\ Processable(call))
                      => (HasResult(Answered(t), call) \/ HasResult(results[t], call))

\* C3 (amended): after a tool round that _handle_tool_calls handled to its
\* end, every request of the round that names a registered tool (its
\* arguments are then valid) has a message of role "tool" in the buffer
\* whose tool_call_id is the request's id and whose content is the text
\* {"recorded": "ok"}, the encoding of what the tool returned; and the tool
\* was invoked under that id with the arguments decoded from the request's
\* text.  In a round that a request to a registered tool aborts, with
\* arguments that do not decode or do not fit, the requests to registered
\* tools before that one were invoked with their decoded arguments and their
\* results are in the results list of the call, which is lost: none is in the
\* buffer; the aborting request and the ones after it have no result at all,
\* and the ones after it were never invoked.
C3_RoundTrip ==
    \A t \in TurnIds :
      /\ (Aborted(t) /\ Len(Asked(t)) > 0) =>
            /\ Answered(t) = <<>>
            /\ cursor[t] \in 1..Len(Asked(t))
            /\ IsRegistered(Asked(t)[cursor[t]])
            /\ ~Processable(Asked(t)[cursor[t]])
            /\ Len(results[t]) =
                  Cardinality({i \in 1..(cursor[t] - 1) : IsRegistered(Asked(t)[i])})
            /\ \A i \in 1..Len(Asked(t)) :
                  LET call == Asked(t)[i]
                      ran == {k \in 1..Len(invoked[t]) :
                                /\ invoked[t][k].round = round[t] + 1
                                /\ invoked[t][k].what.id = call.id}
                  IN  /\ (i < cursor[t] /\ IsRegistered(call))
                            => /\ Processable(call)
                               /\ HasResult(results[t], call)
                               /\ \E k \in ran :
                                     /\ invoked[t][k].what.name = call.function.name
                                     /\ invoked[t][k].what.args =
                                           json_loads(call.function.arguments).value
                      /\ i >= cursor[t] => ~HasResult(results[t], call)
                      /\ i > cursor[t] => ran = {}
      /\ Settled(t) =>
            \A i \in 1..Len(Asked(t)) :
                LET call == Asked(t)[i]
                IN  IsRegistered(call) =>
                      /\ \E j \in 1..Len(Answered(t)) :
                            /\ Answered(t)[j].role = "tool"
                            /\ Answered(t)[j].tool_call_id = call.id
                            /\ Answered(t)[j].content = RecordedText
                      /\ \E k \in 1..Len(invoked[t]) :
                            /\ invoked[t][k].round = round[t]
                            /\ invoked[t][k].what.id = call.id
                            /\ invoked[t][k].what.name = call.function.name
                            /\ call.function.arguments = ArgQuestion
                                  => invoked[t][k].what.args =
                                        Dict(<<Item("question",
                                                    Str("What is his email policy?"))>>)
                            /\ call.function.arguments = ArgNested
                                  => invoked[t][k].what.args =
                                        Dict(<<Item("question",
                                                    List(<<Str("it's"),
                                                           Str("a\\b"),
                                                           List(<<>>)>>))>>)
                            /\ call.function.arguments = ArgDetails
                                  => invoked[t][k].what.args =
                                        Dict(<<Item("email", Str("ann@example.com")),
                                               Item("name", Str("Ann"))>>)

\* A handled round whose second request named record_user_details.
C3_Witness ==
    \E t \in TurnIds :
        /\ Settled(t)
        /\ pc[t] = "AWAITING_MODEL"
        /\ Len(Asked(t)) = 2
        /\ Asked(t)[2].function.name = "record_user_details"
        /\ Len(Answered(t)) >= 1

\* C4: a request naming a tool that is not in the registry is looked up and
\* dropped: it is never invoked, no tool-result carries its id, and it never
\* ends the turn with an error; the other requests of the round are still
\* processed, so a handled round leaves the assistant message followed by
\* exactly one result per registered request, and the loop has moved on to
\* its next iteration (or, after the 5th, to the loop-exceeded error).
C4_UnknownToolDropped ==
    \A t \in TurnIds :
        /\ \A k \in 1..Len(invoked[t]) :
              invoked[t][k].what.name \in DOMAIN TOOL_REGISTRY
        /\ (pc[t] = "FAILED" /\ error[t] # "ProviderError")
              => \/ response[t].choices[1].message.tool_calls.type # "list"
                 \/ \E i \in 1..Len(Asked(t)) :
                       IsRegistered(Asked(t)[i]) /\ ~Processable(Asked(t)[i])
        /\ Settled(t)
              => /\ \A i \in 1..Len(Asked(t)) :
                       ~IsRegistered(Asked(t)[i])
                          => /\ \A j \in 1..Len(Answered(t)) :
                                   Answered(t)[j].tool_call_id # Asked(t)[i].id
                             /\ \E k \in 1..Len(lookups[t]) :
                                   /\ lookups[t][k].round = round[t]
                                   /\ lookups[t][k].what = Asked(t)[i].function.name
                 /\ Len(Answered(t)) =
                       Cardinality({i \in 1..Len(Asked(t)) : IsRegistered(Asked(t)[i])})
                 /\ \A j \in 1..Len(Answered(t)) : Answered(t)[j].role = "tool"

\* A handled round that asked for an unregistered tool first and a registered
\* one second, and has gone on to the next iteration.
C4_Witness ==
    \E t \in TurnIds :
        /\ Settled(t)
        /\ pc[t] = "AWAITING_MODEL"
        /\ Len(Asked(t)) = 2
        /\ ~IsRegistered(Asked(t)[1])
        /\ IsRegistered(Asked(t)[2])
        /\ Len(Answered(t)) = 1

\* Where in a request list an id stands.
Position(calls, id) == CHOOSE i \in 1..Len(calls) : calls[i].id = id

\* C5: in every state of the buffer, each tool-result message follows an
\* assistant message of a tool round with only tool-results in between,
\* carries the id of one of that message's requests, and the results of a
\* round stand in the order of their requests.
C5_ResultMatching ==
    \A t \in TurnIds :
        \A j \in 1..Len(messages[t]) :
            messages[t][j].role = "tool" =>
                LET before == SubSeq(messages[t], 1, j - 1)
                    a == LastAssistant(before)
                IN  /\ a > 0
                    /\ \A m \in (a + 1)..(j - 1) : messages[t][m].role = "tool"
                    /\ messages[t][a].tool_calls.type = "list"
                    /\ \E i \in 1..Len(messages[t][a].tool_calls.v) :
                          messages[t][a].tool_calls.v[i].id = messages[t][j].tool_call_id
                    /\ \A m \in (a + 1)..(j - 1) :
                          Position(messages[t][a].tool_calls.v,
                                   messages[t][m].tool_call_id)
                             < Position(messages[t][a].tool_calls.v,
                                        messages[t][j].tool_call_id)

\* A buffer holding two results of one round, and a later round's result.
C5_Witness ==
    \E t \in TurnIds :
        \E j \in 3..Len(messages[t]) :
            /\ messages[t][j].role = "tool"
            /\ messages[t][j - 1].role = "tool"
            /\ messages[t][j - 1].tool_call_id # messages[t][j].tool_call_id

\* The parts of an error detail.
Parts(detail) == {detail[i] : i \in 1..Len(detail)}

\* C6: LLMClient(name) for a name outside the configured set raises a
\* configuration error whose detail lists every configured provider name, and
\* binds no client; for a configured name it succeeds with that provider's
\* client; and no construction sends a completion request.
C6_ProviderResolution ==
    /\ [](/\ (ctor.provider \notin {"none", "openai", "gemini"})
                => /\ ctor.raised = "ValueError"
                   /\ {"openai", "gemini"} \subseteq Parts(ctor.detail)
                   /\ ctor.provider \in Parts(ctor.detail)
          /\ (ctor.provider \in {"openai", "gemini"})
                => /\ ctor.raised = NoError
                   /\ llm_client.provider = ctor.provider
                   /\ llm_client.model =
                         IF ctor.provider = "openai" THEN Str("gpt-4o-mini")
                         ELSE Str("gemini-2.5-flash")
          /\ llm_client = NoClient \/ llm_client.provider \in {"openai", "gemini"})
    /\ [][(ctor' # ctor \/ llm_client' # llm_client)
             => /\ requests' = requests
                /\ ctor'.raised # NoError => llm_client' = llm_client]_vars

\* A process whose only construction, for "anthropic", failed.
C6_Witness ==
    /\ ctor.provider = "anthropic"
    /\ ctor.raised = "ValueError"
    /\ llm_client = NoClient
    /\ requests = <<>>

Unset(setting) == setting = None \/ setting = Str("")

\* C7: no push call raises; with the token or the user missing it attempts
\* no POST and returns at once; with both configured it attempts exactly one
\* POST, to the Pushover endpoint, and returns without raising whether that
\* POST is answered, times out or cannot connect.  While a push waits for its
\* POST other pushes are called and return; the POST a push made stays the
\* one it made, and a push that has returned is not touched again.
C7_FireAndForget ==
    /\ [](\A i \in 1..Len(posts) :
            /\ posts[i].raised = NoError
            /\ (Unset(PUSHOVER_TOKEN) \/ Unset(PUSHOVER_USER))
                  => (posts[i].sent = <<>> /\ posts[i].outcome = "not_called")
            /\ ~(Unset(PUSHOVER_TOKEN) \/ Unset(PUSHOVER_USER))
                  => /\ Len(posts[i].sent) = 1
                     /\ posts[i].sent[1].url
                           = "https://api.pushover.net/1/messages.json"
                     /\ Keys(posts[i].sent[1].data) = {"token", "user", "message"}
                     /\ posts[i].outcome
                           \in {"pending", "ok", "Timeout", "ConnectionError"})
    /\ [][/\ Len(posts') >= Len(posts)
          /\ \A i \in 1..Len(posts) :
                /\ posts'[i].sent = posts[i].sent
                /\ posts[i].outcome # "pending" => posts'[i] = posts[i]
                /\ posts'[i].outcome # posts[i].outcome
                      => posts'[i].outcome \in {"ok", "Timeout", "ConnectionError"}]_vars

\* A push that still waits for its POST while two pushes called after it
\* have returned: the POST of one timed out, that of the other could not
\* connect.
C7_Witness ==
    /\ Len(posts) = 3
    /\ posts[1].outcome = "pending"
    /\ posts[2].outcome = "Timeout"
    /\ posts[3].outcome = "ConnectionError"
    /\ posts[3].raised = NoError

\* C8: no turn ends with a transport error of the notification; a POST is
\* in flight exactly while the turn waits in it, for the latest push of the
\* round; every push of a round whose POST was skipped, answered or failed in
\* transport has its tool's result in the results list, with the content
\* {"recorded": "ok"}; and in a handled round every registered tool that was
\* asked for pushed once (a question that is an array is pushed as its repr)
\* and its tool-result message is in the buffer, and the loop went on.
C8_ResultIndependentOfPush ==
    \A t \in TurnIds :
        /\ error[t] \notin {"Timeout", "ConnectionError"}
        /\ \A k \in 1..Len(pushed[t]) :
              /\ pushed[t][k].what.raised = NoError
              /\ pushed[t][k].what.outcome \in
                    IF Unset(PUSHOVER_TOKEN) \/ Unset(PUSHOVER_USER)
                    THEN {"not_called"}
                    ELSE {"ok", "Timeout", "ConnectionError", "pending"}
              /\ pushed[t][k].what.outcome = "pending"
                    => (k = Len(pushed[t]) /\ pc[t] = "POSTING")
        /\ pc[t] = "POSTING"
              => /\ Len(pushed[t]) > 0
                 /\ pushed[t][Len(pushed[t])].what.outcome = "pending"
                 /\ Len(results[t]) = Len(pushed[t]) - 1
        /\ pc[t] = "HAS_TOOL_CALLS" => Len(results[t]) = Len(pushed[t])
        /\ \A j \in 1..Len(results[t]) : results[t][j].content = RecordedText
        /\ (Settled(t) /\ Len(Asked(t)) = 1 /\ Asked(t)[1].function = NestedCall
              /\ ~(Unset(PUSHOVER_TOKEN) \/ Unset(PUSHOVER_USER)))
              => Get(pushed[t][1].what.sent[1].data, "message")
                    = FString(<<"Recording ", "[\"it's\", 'a\\\\b', []]">>)
        /\ Settled(t)
              => /\ Len(pushed[t]) =
                       Cardinality({i \in 1..Len(Asked(t)) : IsRegistered(Asked(t)[i])})
                 /\ Len(Answered(t)) = Len(pushed[t])
                 /\ \A j \in 1..Len(Answered(t)) :
                       Answered(t)[j].content = RecordedText
                 /\ \A k \in 1..Len(pushed[t]) : pushed[t][k].round = round[t]

\* A round in which both tools ran, one notification timing out and the other
\* failing to connect, and the loop went on to its next iteration.
C8_Witness ==
    \E t \in TurnIds :
        /\ Settled(t)
        /\ pc[t] = "AWAITING_MODEL"
        /\ Len(Answered(t)) = 2
        /\ Len(pushed[t]) = 2
        /\ pushed[t][1].what.outcome = "Timeout"
        /\ pushed[t][2].what.outcome = "ConnectionError"
        /\ Asked(t)[1].function.name # Asked(t)[2].function.name

\* C9: a completion call that fails ends the turn there: no text is returned,
\* the failed call is the turn's last, nothing was appended and no tool was
\* looked up or invoked after it, and the turn takes no further step; a turn
\* that is about to call the model or awaits its answer has had every
\* earlier call answered (none was retried).
C9_ProviderFailureEndsTurn ==
    \A t \in TurnIds :
        /\ pc[t] = "CALLING_MODEL" => Calls(t) = round[t]
        /\ pc[t] = "AWAITING_MODEL" => Calls(t) = round[t] + 1
        /\ (pc[t] = "FAILED" /\ error[t] = "ProviderError")
              => /\ result[t] = NoResult
                 /\ Calls(t) = round[t] + 1
                 /\ Calls(t) <= 5
                 /\ messages[t] = LastSent(t)
                 /\ \A i \in 1..Len(lookups[t]) : lookups[t][i].round <= round[t]
                 /\ \A i \in 1..Len(invoked[t]) : invoked[t][i].round <= round[t]
                 /\ ~ENABLED (Start(t) \/ Send(t) \/ Complete(t) \/ ProviderFails(t)
                              \/ HandleToolCalls(t) \/ PostReturns(t))

\* A turn whose 5th completion call failed, after rounds that invoked tools.
C9_Witness ==
    \E t \in TurnIds :
        /\ pc[t] = "FAILED"
        /\ error[t] = "ProviderError"
        /\ round[t] = 4
        /\ Len(invoked[t]) > 0

\* C10: parse_tool_calls returns the empty sequence for a response whose
\* message has no tool_calls attribute, or has None or an empty list there,
\* and otherwise one entry per call, in order, with the call's id, name and
\* argument text; and a parse changes nothing of the client or of what was
\* sent.
C10_PureProjection ==
    /\ [](LET message == parsed.response.choices[1].message
          IN  /\ ("tool_calls" \notin DOMAIN message) => parsed.tool_calls = <<>>
              /\ ("tool_calls" \in DOMAIN message)
                    => IF message.tool_calls.type # "list"
                       THEN parsed.tool_calls = <<>>
                       ELSE /\ Len(parsed.tool_calls) = Len(message.tool_calls.v)
                            /\ \A i \in 1..Len(message.tool_calls.v) :
                                  /\ DOMAIN parsed.tool_calls[i]
                                        = {"id", "name", "arguments"}
                                  /\ parsed.tool_calls[i].id = message.tool_calls.v[i].id
                                  /\ parsed.tool_calls[i].name
                                        = message.tool_calls.v[i].function.name
                                  /\ parsed.tool_calls[i].arguments
                                        = message.tool_calls.v[i].function.arguments)
    /\ [][parsed' # parsed
             => (llm_client' = llm_client /\ ctor' = ctor /\ requests' = requests)]_vars

\* A parse of a response with two calls to different tools.
C10_Witness ==
    /\ Len(parsed.tool_calls) = 2
    /\ parsed.tool_calls[1].name # parsed.tool_calls[2].name
    /\ parsed.tool_calls[1].id # parsed.tool_calls[2].id

\* C11: a turn that has returned a text has made exactly one completion call
\* more than the tool rounds it handled before, k calls for k - 1 rounds with
\* k in 1..5, and what it returned is the text of that k-th answer, with no
\* error; and the loop-exceeded error never ends a turn that has handled
\* fewer than 5 tool rounds, so an answer to the 5th call is always received.
C11_EarlyResolution ==
    \A t \in TurnIds :
        /\ pc[t] = "DONE"
              => /\ Calls(t) = round[t] + 1
                 /\ Calls(t) \in 1..5
                 /\ response[t].choices[1].finish_reason # "tool_calls"
                 /\ result[t] = response[t].choices[1].message.content
                 /\ error[t] = NoError
        /\ round[t] < 5 => (pc[t] # "EXHAUSTED" /\ error[t] # "RuntimeError")

\* A text returned on the 5th completion call, after tool rounds with a
\* registered tool invoked and an unregistered one asked for.
C11_Witness ==
    \E t \in TurnIds :
        /\ pc[t] = "DONE"
        /\ Calls(t) = 5
        /\ round[t] = 4
        /\ result[t] = Str("He is a front-end engineer.")
        /\ Len(invoked[t]) > 0
        /\ \E i \in 1..Len(lookups[t]) : lookups[t][i].what = "get_weather"

\* The ways a turn ends, and where a turn that has not ended is: about to
\* call the model, waiting for its answer, inside _handle_tool_calls, or
\* waiting for a POST.
Terminal == {"DONE", "EXHAUSTED", "FAILED"}

Running == {"CALLING_MODEL", "AWAITING_MODEL", "HAS_TOOL_CALLS", "POSTING"}

\* C12 as stated: a turn that has ended, with a text or with an exception,
\* has ended with the final text (DONE) or with the loop-exceeded error after
\* 5 tool rounds (EXHAUSTED).
C12_AsStated ==
    \A t \in TurnIds :
        (result[t] # NoResult \/ error[t] # NoError)
            => \/ pc[t] = "DONE" /\ error[t] = NoError
               \/ pc[t] = "EXHAUSTED" /\ error[t] = "RuntimeError" /\ round[t] = 5

\* C12 (amended): a started turn ends in exactly one of three ways: the text
\* of a non-tool answer is returned (DONE), the loop-exceeded error is raised
\* after 5 tool rounds (EXHAUSTED), or another exception leaves chat (FAILED):
\* the completion call's, or the TypeError or JSONDecodeError of a round
\* whose response has no tool-call list or holds a request that cannot be
\* processed, and such a round always ends the turn.  An ended turn takes no
\* further step, a started turn is never back at its start, and no turn runs
\* for ever: a turn that runs reaches one of the three ends.
C12_TerminalStates ==
    /\ [](\A t \in TurnIds :
            /\ pc[t] \in {"idle"} \cup Running \cup Terminal
            /\ (pc[t] = "DONE") <=> (result[t] # NoResult)
            /\ (pc[t] = "EXHAUSTED") <=> (error[t] = "RuntimeError")
            /\ (pc[t] = "FAILED")
                  <=> (error[t] \in {"ProviderError", "TypeError", "JSONDecodeError"})
            /\ (pc[t] \in Terminal) <=> (result[t] # NoResult \/ error[t] # NoError)
            /\ ~(result[t] # NoResult /\ error[t] # NoError)
            /\ pc[t] = "EXHAUSTED" => round[t] = 5
            /\ pc[t] \in Running => round[t] < 5
            /\ Settled(t)
                  => /\ messages[t][LastAssistant(messages[t])].tool_calls.type = "list"
                     /\ \A i \in 1..Len(Asked(t)) : Processable(Asked(t)[i]))
    /\ [][\A t \in TurnIds :
            pc[t] \in Terminal
               => /\ pc'[t] = pc[t]
                  /\ result'[t] = result[t]
                  /\ error'[t] = error[t]
                  /\ messages'[t] = messages[t]
                  /\ round'[t] = round[t]
                  /\ Calls(t)' = Calls(t)]_vars
    /\ [][\A t \in TurnIds : pc[t] # "idle" => pc'[t] # "idle"]_vars
    /\ \A t \in TurnIds : []<>(pc[t] \notin Running)

\* Turns ended in the third way: by the decoding error of a request made in a
\* later round, after a round that invoked a tool.
C12_Witness ==
    \E t \in TurnIds :
        /\ pc[t] = "FAILED"
        /\ error[t] = "JSONDecodeError"
        /\ round[t] >= 1
        /\ Len(invoked[t]) > 0

\* The tool rounds a buffer holds, and where the assistant message of round r
\* stands in it.
ToolRounds(msgs) == Cardinality({i \in 1..Len(msgs) : IsToolRound(msgs[i])})

RoundMessage(msgs, r) ==
    CHOOSE i \in 1..Len(msgs) :
        IsToolRound(msgs[i]) /\ ToolRounds(SubSeq(msgs, 1, i)) = r

\* The requests of round r of turn t, those of them that name registered
\* tools, and the tools round r invoked.
RequestsIn(t, r) ==
    LET tool_calls == messages[t][RoundMessage(messages[t], r)].tool_calls
    IN  IF tool_calls.type = "list" THEN tool_calls.v ELSE <<>>

RegisteredIn(t, r) == SelectSeq(RequestsIn(t, r), IsRegistered)

InvokedIn(t, r) == SelectSeq(invoked[t], LAMBDA e : e.round = r)

ResultsIn(msgs) == Cardinality({i \in 1..Len(msgs) : msgs[i].role = "tool"})

\* The buffers turn t sent, in the order of its completion calls.
SentBy(t) == SelectSeq(requests, LAMBDA q : q.turn = t)

\* The round turn t is in the middle of, if any.
Open(t) ==
    \/ pc[t] \in {"HAS_TOOL_CALLS", "POSTING"}
    \/ pc[t] = "FAILED" /\ error[t] # "ProviderError"

\* The requests of the open round that the for loop has reached: those before
\* the cursor, and the one at it while its POST is in flight.
Reached(t) ==
    SubSeq(RequestsIn(t, round[t] + 1), 1,
           IF pc[t] = "POSTING" THEN cursor[t] ELSE cursor[t] - 1)

\* C13: the buffer holds one assistant message per tool round, the raw
\* requests of the response as the model emitted them, appended by the step
\* that receives the response and before any tool of the round runs; the
\* tools a round invokes are its requests to registered tools in emission
\* order, each once, those the loop has reached while the round is under
\* way and all of them once it is handled; tools run only inside the round,
\* after its assistant message, and the results are appended at its end;
\* and each completion call is made with every earlier round's invocations
\* done and their results in the buffer sent.
C13_RoundOrdering ==
    /\ [](\A t \in TurnIds :
            /\ ToolRounds(messages[t]) = round[t] + (IF Open(t) THEN 1 ELSE 0)
            /\ \A r \in 1..ToolRounds(messages[t]) :
                  LET ran == InvokedIn(t, r)
                      reg == RegisteredIn(t, r)
                  IN  /\ Len(ran) <= Len(reg)
                      /\ \A i \in 1..Len(ran) :
                            /\ ran[i].what.id = reg[i].id
                            /\ ran[i].what.name = reg[i].function.name
                      /\ r <= round[t] => Len(ran) = Len(reg)
            /\ \A i \in 1..Len(invoked[t]) :
                  invoked[t][i].round \in 1..ToolRounds(messages[t])
            /\ pc[t] \in {"HAS_TOOL_CALLS", "POSTING"}
                  => /\ messages[t][Len(messages[t])]
                           = AssistantMessage(response[t].choices[1].message)
                     /\ cursor[t] >= 1
                     /\ Len(InvokedIn(t, round[t] + 1))
                           = Len(SelectSeq(Reached(t), IsRegistered))
            /\ \A j \in 1..Len(SentBy(t)) :
                  LET buffer == SentBy(t)[j].kwargs.messages
                  IN  /\ ToolRounds(buffer) = j - 1
                      /\ buffer = SubSeq(messages[t], 1, Len(buffer))
                      /\ ResultsIn(buffer)
                            = Cardinality({i \in 1..Len(invoked[t]) :
                                              invoked[t][i].round < j}))
    /\ [][\A t \in TurnIds :
            /\ invoked'[t] # invoked[t]
                  => /\ pc[t] = "HAS_TOOL_CALLS"
                     /\ IsToolRound(messages[t][Len(messages[t])])
                     /\ SentBy(t)' = SentBy(t)
            /\ ResultsIn(messages'[t]) # ResultsIn(messages[t])
                  => /\ pc[t] = "HAS_TOOL_CALLS"
                     /\ SubSeq(messages'[t], 1, Len(messages[t])) = messages[t]
                     /\ SentBy(t)' = SentBy(t)
            /\ SentBy(t)' # SentBy(t)
                  => /\ pc[t] = "CALLING_MODEL"
                     /\ invoked'[t] = invoked[t]
                     /\ ResultsIn(messages'[t]) = ResultsIn(messages[t])
                     /\ ToolRounds(messages'[t]) <= ToolRounds(messages[t]) + 1
                     /\ \A i \in 1..Len(invoked[t]) :
                           invoked[t][i].round <= round[t]]_vars

\* A round that invoked two different tools, one after the other, followed
\* by a further completion call.
C13_Witness ==
    \E t \in TurnIds :
        /\ Calls(t) >= 2
        /\ Len(InvokedIn(t, 1)) = 2
        /\ InvokedIn(t, 1)[1].what.name # InvokedIn(t, 1)[2].what.name
        /\ InvokedIn(t, 1)[1].what.id = CallId(1)
        /\ InvokedIn(t, 1)[2].what.id = CallId(2)
        /\ ResultsIn(LastSent(t)) = 2

\* The tool-result messages that follow the assistant message of round r.
ResultsOf(t, r) ==
    LET a == RoundMessage(messages[t], r)
        b == IF r < ToolRounds(messages[t])
             THEN RoundMessage(messages[t], r + 1) - 1
             ELSE Len(messages[t])
    IN  SelectSeq(SubSeq(messages[t], a + 1, b), LAMBDA m : m.role = "tool")

\* C14 as stated: once a round's requests have been gone through, each of its
\* requests naming a registered tool has been invoked exactly once and has
\* exactly one tool-result message, so the round's invocations and results
\* are as many as its requests that name registered tools.
C14_AsStated ==
    \A t \in TurnIds :
        \A r \in 1..ToolRounds(messages[t]) :
            (r <= round[t] \/ pc[t] = "FAILED")
                => /\ Len(InvokedIn(t, r)) = Len(RegisteredIn(t, r))
                   /\ Len(ResultsOf(t, r)) = Len(RegisteredIn(t, r))

\* C14 (amended): no request is invoked twice, and none outside the round
\* that emitted it: a round's invocations are requests of that round to
\* registered tools, each at most once, and a later step neither adds to the
\* invocations of a handled round nor to its results.  In a round handled to
\* its end every request naming a registered tool is invoked exactly once and
\* has exactly one result, so its results are as many as those requests, and
\* as the round ends they are the results of _handle_tool_calls run over the
\* round's requests in one go.  In a round under way, the requests invoked
\* so far have one result each in the results list, but for the one whose
\* POST is in flight, and none in the buffer.  In a round that a request aborts, the requests
\* before that one were invoked once, the later ones never, and the round has
\* no result at all.
C14_ExactlyOnce ==
    /\ [](\A t \in TurnIds :
            \A r \in 1..ToolRounds(messages[t]) :
                LET ran == InvokedIn(t, r)
                    reg == RegisteredIn(t, r)
                    res == ResultsOf(t, r)
                IN  /\ \A i, j \in 1..Len(ran) : ran[i].what.id = ran[j].what.id => i = j
                    /\ \A i \in 1..Len(ran) :
                          \E k \in 1..Len(reg) : reg[k].id = ran[i].what.id
                    /\ r <= round[t]
                          => /\ Len(ran) = Len(reg)
                             /\ Len(res) = Len(reg)
                             /\ \A k \in 1..Len(reg) :
                                   /\ ran[k].what.id = reg[k].id
                                   /\ res[k].tool_call_id = reg[k].id
                             /\ (r = round[t] /\ pc[t] \in {"CALLING_MODEL", "EXHAUSTED"})
                                   => LET h == handle_tool_calls(
                                                 messages[t][RoundMessage(messages[t], r)]
                                                     .tool_calls,
                                                 PUSHOVER_TOKEN, PUSHOVER_USER,
                                                 [i \in 1..Len(RequestsIn(t, r)) |-> "ok"])
                                      IN  /\ h.raised = NoError
                                          /\ res = h.results
                                          /\ ran = InRound(h.invoked, r)
                    /\ r > round[t]
                          => /\ res = <<>>
                             /\ Len(ran) <= Len(reg)
                             /\ \A k \in 1..(Len(ran) - 1) : Processable(reg[k])
                             /\ pc[t] \in {"HAS_TOOL_CALLS", "POSTING"}
                                   => /\ Len(ran) = Len(results[t])
                                                     + (IF pc[t] = "POSTING" THEN 1 ELSE 0)
                                      /\ \A k \in 1..Len(results[t]) :
                                            results[t][k].tool_call_id = ran[k].what.id
                             /\ (pc[t] = "FAILED" /\ error[t] = "JSONDecodeError")
                                   => /\ Len(ran) < Len(reg)
                                      /\ \A k \in 1..Len(ran) : Processable(reg[k])
                                      /\ ~Processable(reg[Len(ran) + 1])
                             /\ (pc[t] = "FAILED" /\ error[t] = "TypeError"
                                 /\ messages[t][RoundMessage(messages[t], r)]
                                       .tool_calls.type = "list")
                                   => /\ Len(ran) >= 1
                                      /\ ~Processable(reg[Len(ran)]))
    /\ [][\A t \in TurnIds :
            \A r \in 1..round[t] :
                /\ InvokedIn(t, r)' = InvokedIn(t, r)
                /\ ResultsOf(t, r)' = ResultsOf(t, r)]_vars

\* A round whose two requests were each invoked once and answered once,
\* followed by a handled round that asked for nothing and invoked nothing.
C14_Witness ==
    \E t \in TurnIds :
        /\ round[t] >= 2
        /\ Len(RegisteredIn(t, 1)) = 2
        /\ Len(InvokedIn(t, 1)) = 2
        /\ Len(ResultsOf(t, 1)) = 2
        /\ InvokedIn(t, 2) = <<>>
        /\ Len(invoked[t]) = 2

\* C15: the buffer of a turn's first completion call is the system message
\* with the system prompt, the caller's history in its order, and the new
\* user message, and nothing else; the buffer of each later call is the
\* buffer of the call before it followed by one assistant message of a tool
\* round and then tool-result messages only; no step of a running turn
\* changes or drops a message the buffer already holds; and every call
\* carries the same tool declarations.
C15_AppendOnlyBuffer ==
    /\ [](\A t \in TurnIds :
            LET sent == SentBy(t)
            IN  /\ sent # <<>> =>
                      LET first == sent[1].kwargs.messages
                          n == Len(history[t])
                      IN  /\ Len(first) = n + 2
                          /\ first[1] = [role |-> "system", content |-> SystemPrompt]
                          /\ SubSeq(first, 2, n + 1) = history[t]
                          /\ first[n + 2].role = "user"
                          /\ first[n + 2].content \in UserMessages
                          /\ DOMAIN first[n + 2] = {"role", "content"}
                /\ \A j \in 1..(Len(sent) - 1) :
                      LET a == sent[j].kwargs.messages
                          b == sent[j + 1].kwargs.messages
                      IN  /\ Len(b) > Len(a)
                          /\ SubSeq(b, 1, Len(a)) = a
                          /\ IsToolRound(b[Len(a) + 1])
                          /\ \A i \in (Len(a) + 2)..Len(b) : b[i].role = "tool"
                /\ \A j \in 1..Len(sent) :
                      /\ "tools" \in DOMAIN sent[j].kwargs
                      /\ sent[j].kwargs.tools = tools
                      /\ sent[j].kwargs.model = llm_client.model
                /\ sent # <<>> =>
                      LET last == sent[Len(sent)].kwargs.messages
                      IN  SubSeq(messages[t], 1, Len(last)) = last)
    /\ [][\A t \in TurnIds :
            /\ pc[t] # "idle"
                  => /\ Len(messages'[t]) >= Len(messages[t])
                     /\ SubSeq(messages'[t], 1, Len(messages[t])) = messages[t]
            /\ \A j \in 1..Len(SentBy(t)) : SentBy(t)'[j] = SentBy(t)[j]]_vars

\* A turn seeded with a two-message history that made three completion
\* calls: the second buffer grew by an assistant message and two results,
\* the third by an assistant message alone.
C15_Witness ==
    \E t \in TurnIds :
        /\ Len(history[t]) = 2
        /\ Len(SentBy(t)) = 3
        /\ Len(SentBy(t)[1].kwargs.messages) = 4
        /\ Len(SentBy(t)[2].kwargs.messages) = 7
        /\ Len(SentBy(t)[3].kwargs.messages) = 8

\* What belongs to turn t: its position, its inputs, its buffer, its
\* counter, its outcome, what it looked up, invoked and pushed, the frame of
\* its _handle_tool_calls, and the requests it sent.
Own(t) ==
    <<pc[t], history[t], messages[t], round[t], response[t], result[t], error[t],
      lookups[t], invoked[t], pushed[t], cursor[t], results[t], SentBy(t)>>

\* C16: with two turns interleaved, also while one waits for the provider or
\* for a POST, every step is a step of one turn and leaves everything that
\* belongs to the other turn as it was, whether the step returns a text,
\* fails or raises the loop-exceeded error, and no step writes the client or
\* the settings.  Each turn's buffer begins with its own
\* seed and grows only by the assistant message of the response this turn
\* received and by the results of the requests in it; its tool rounds are as
\* many as its own counter says, its results as many as its own invocations
\* in handled rounds; each turn makes at most 5 completion calls of its own,
\* and a turn that returned a text returned the text of its own last answer.
C16_TurnIndependence ==
    /\ [](\A t \in TurnIds :
            /\ Calls(t) <= 5
            /\ Calls(t) = round[t] + (IF pc[t] \in {"idle", "CALLING_MODEL", "EXHAUSTED"}
                                      THEN 0 ELSE 1)
            /\ pc[t] # "idle"
                  => /\ SubSeq(messages[t], 1, Len(history[t]) + 1)
                           = <<[role |-> "system", content |-> SystemPrompt]>>
                             \o history[t]
                     /\ messages[t][Len(history[t]) + 2].role = "user"
                     /\ \A i \in (Len(history[t]) + 3)..Len(messages[t]) :
                           messages[t][i].role \in {"assistant", "tool"}
                     /\ ToolRounds(messages[t]) = round[t] + (IF Open(t) THEN 1 ELSE 0)
                     /\ ResultsIn(messages[t])
                           = Cardinality({i \in 1..Len(invoked[t]) :
                                             invoked[t][i].round <= round[t]})
                     /\ Len(messages[t])
                           = Len(history[t]) + 2 + ToolRounds(messages[t])
                             + ResultsIn(messages[t])
            /\ pc[t] = "DONE" => result[t] = response[t].choices[1].message.content)
    /\ [][/\ \E t \in TurnIds : \A u \in TurnIds \ {t} : Own(u)' = Own(u)
          /\ llm_client' = llm_client
          /\ PUSHOVER_TOKEN' = PUSHOVER_TOKEN
          /\ PUSHOVER_USER' = PUSHOVER_USER
          /\ \A t \in TurnIds :
                /\ (pc[t] = "AWAITING_MODEL" /\ messages'[t] # messages[t])
                      => messages'[t]
                            = Append(messages[t],
                                     AssistantMessage(response'[t].choices[1].message))
                /\ (pc[t] = "HAS_TOOL_CALLS" /\ messages'[t] # messages[t])
                      => /\ SubSeq(messages'[t], 1, Len(messages[t])) = messages[t]
                         /\ \A i \in (Len(messages[t]) + 1)..Len(messages'[t]) :
                               /\ messages'[t][i].role = "tool"
                               /\ \E k \in 1..Len(Asked(t)) :
                                     Asked(t)[k].id = messages'[t][i].tool_call_id
                /\ pc[t] \in {"CALLING_MODEL", "POSTING"} \cup Terminal
                      => messages'[t] = messages[t]]_vars

\* Two turns with different histories: one waits for the POST of the tool it
\* invoked in its 5th round, with no result in its buffer; the other, called
\* later, has meanwhile made 5 completion calls of its own, invoked a tool
\* and returned its text.
C16_Witness ==
    /\ pc[1] = "POSTING"
    /\ pc[2] = "DONE"
    /\ Calls(1) = 5
    /\ Calls(2) = 5
    /\ history[1] # history[2]
    /\ Len(invoked[1]) = 1
    /\ invoked[1][1].round = 5
    /\ Len(invoked[2]) = 1
    /\ ResultsIn(messages[1]) = 0
    /\ ResultsIn(messages[2]) = 1

\* C17: from the call of chat on, the caller's history list stays what the
\* caller passed: it is one of the front-end's histories, of role/content
\* pairs only, it stands unchanged in the buffer between the system message
\* and the user message, while the buffer is a sequence of its own that
\* grows; and no step of the turn, whether it appends to the buffer, returns
\* the text, raises the loop-exceeded error or fails in the middle of a
\* round, changes the history's length or contents.
C17_HistoryUnchanged ==
    /\ [](\A t \in TurnIds :
            pc[t] # "idle"
               => /\ history[t] \in Histories
                  /\ \A i \in 1..Len(history[t]) :
                        /\ DOMAIN history[t][i] = {"role", "content"}
                        /\ history[t][i].role \in {"user", "assistant"}
                  /\ Len(messages[t]) >= Len(history[t]) + 2
                  /\ SubSeq(messages[t], 2, Len(history[t]) + 1) = history[t]
                  /\ \A j \in 1..Len(SentBy(t)) :
                        SubSeq(SentBy(t)[j].kwargs.messages, 2, Len(history[t]) + 1)
                           = history[t])
    /\ [][\A t \in TurnIds :
            /\ pc[t] # "idle" => history'[t] = history[t]
            /\ pc[t] = "idle" /\ pc'[t] # "idle" => history'[t] \in Histories]_vars

\* A turn called with a two-message history that failed in the middle of
\* its second round, after a round whose result was appended to the buffer.
C17_Witness ==
    \E t \in TurnIds :
        /\ pc[t] = "FAILED"
        /\ error[t] \in {"TypeError", "JSONDecodeError"}
        /\ round[t] = 1
        /\ Len(history[t]) = 2
        /\ ResultsIn(messages[t]) = 1
        /\ Len(messages[t]) = Len(history[t]) + 5

\* The argument text of a request decodes.
Decodes(call) == json_loads(call.function.arguments).raised = NoError

\* The first request of a round that cannot be processed, or 0.
FirstFailing(calls) ==
    IF \A i \in 1..Len(calls) : Processable(calls[i]) THEN 0
    ELSE CHOOSE i \in 1..Len(calls) :
            /\ ~Processable(calls[i])
            /\ \A j \in 1..(i - 1) : Processable(calls[j])

\* C18: a round holding a request to a registered tool whose argument text
\* does not decode, or decodes to arguments that do not fit, ends the turn in
\* the step that reaches that request, with JSONDecodeError in the first
\* case and TypeError in the second, without a text and with no later
\* completion call or step; until then the round only goes through the
\* requests before it, and it never appends to the buffer.  The buffer is then the buffer last sent plus the round's
\* assistant message, with no result of that round; the registered tools
\* requested before the failing request have been invoked, in order, and
\* each has made its push (a POST attempted when the destination is
\* configured); the requests after the failing one have not been looked up.
C18_FailingRequestAbortsTurn ==
    /\ [](\A t \in TurnIds :
            (pc[t] = "FAILED" /\ error[t] \in {"TypeError", "JSONDecodeError"}
             /\ response[t].choices[1].message.tool_calls.type = "list")
               => LET calls == response[t].choices[1].message.tool_calls.v
                      f == FirstFailing(calls)
                      r == round[t] + 1
                      before == SelectSeq(SubSeq(calls, 1, f - 1), IsRegistered)
                      ran == InvokedIn(t, r)
                      fits == SelectSeq(ran, LAMBDA e :
                                 BindError(e.what.args,
                                           IF e.what.name = "record_user_details"
                                           THEN {"email", "name", "notes"}
                                           ELSE {"question"},
                                           IF e.what.name = "record_user_details"
                                           THEN {"email"} ELSE {"question"}) = NoError)
                  IN  /\ f > 0
                      /\ IsRegistered(calls[f])
                      /\ error[t] = IF Decodes(calls[f]) THEN "TypeError"
                                    ELSE "JSONDecodeError"
                      /\ result[t] = NoResult
                      /\ Calls(t) = r
                      /\ messages[t]
                            = Append(LastSent(t),
                                     AssistantMessage(response[t].choices[1].message))
                      /\ ResultsOf(t, r) = <<>>
                      /\ fits = [i \in 1..Len(before) |->
                                    [round |-> r,
                                     what |-> [id |-> before[i].id,
                                               name |-> before[i].function.name,
                                               args |-> json_loads(
                                                   before[i].function.arguments).value]]]
                      /\ Len(ran) = Len(before) + (IF Decodes(calls[f]) THEN 1 ELSE 0)
                      /\ Len(pushed[t]) = Len(before)
                      /\ \A i \in 1..Len(pushed[t]) :
                            /\ pushed[t][i].round = r
                            /\ pushed[t][i].what.raised = NoError
                            /\ IF Truthy(PUSHOVER_TOKEN) /\ Truthy(PUSHOVER_USER)
                               THEN Len(pushed[t][i].what.sent) = 1
                               ELSE pushed[t][i].what.sent = <<>>
                      /\ Cardinality({i \in 1..Len(lookups[t]) : lookups[t][i].round = r})
                            = f
                      /\ cursor[t] = f
                      /\ ~ENABLED (Start(t) \/ Send(t) \/ Complete(t)
                                   \/ ProviderFails(t) \/ HandleToolCalls(t)
                                   \/ PostReturns(t)))
    /\ [][\A t \in TurnIds :
            (pc[t] \in {"HAS_TOOL_CALLS", "POSTING"}
             /\ messages[t][Len(messages[t])].tool_calls.type = "list"
             /\ FirstFailing(messages[t][Len(messages[t])].tool_calls.v) > 0)
               => LET f == FirstFailing(messages[t][Len(messages[t])].tool_calls.v)
                  IN  /\ cursor[t] <= f
                      /\ pc'[t] \in {"HAS_TOOL_CALLS", "POSTING", "FAILED"}
                      /\ (pc[t] = "HAS_TOOL_CALLS" /\ cursor[t] = f /\ pc'[t] # pc[t])
                            => /\ pc'[t] = "FAILED"
                               /\ error'[t] \in {"TypeError", "JSONDecodeError"}
                      /\ pc'[t] = "FAILED" => (pc[t] = "HAS_TOOL_CALLS" /\ cursor[t] = f)
                      /\ messages'[t] = messages[t]
                      /\ round'[t] = round[t]
                      /\ requests' = requests]_vars

\* A round whose first request was invoked and pushed to the configured
\* destination, where the POST timed out, and whose second request did not
\* decode: the turn failed and the round left no result in the buffer.
C18_Witness ==
    \E t \in TurnIds :
        /\ pc[t] = "FAILED"
        /\ error[t] = "JSONDecodeError"
        /\ round[t] = 0
        /\ Len(InvokedIn(t, 1)) = 1
        /\ Len(pushed[t]) = 1
        /\ Len(pushed[t][1].what.sent) = 1
        /\ pushed[t][1].what.outcome = "Timeout"
        /\ ResultsIn(messages[t]) = 0
        /\ IsToolRound(messages[t][Len(messages[t])])

=============================================================================
